---- MODULE Spec2Model ----
(***************************************************************************)
(* Model of conversion_configs/serverscom/prepare_data.py: the batch that  *)
(* reads usage rows, enriches them in process_data and writes them out.    *)
(*                                                                         *)
(* A Python str is a sequence of one-character strings, so that split,     *)
(* join, strip, float() and strftime are computed character by character.  *)
(* A dict is a function whose DOMAIN is its key set; a list of dicts is a  *)
(* sequence of such functions, and prepared_data holds references          *)
(* (indices) into the caller's list, because the code appends the very     *)
(* objects it mutates.                                                     *)
(***************************************************************************)
EXTENDS Integers, Sequences, FiniteSets, TLC

VARIABLES
    entry,           \* "main": the script is run; "call": process_data is called directly
    input_file,      \* main: the input path, rows as csv.DictReader yields them;
                     \* call: rows is the list the caller passes
    out_init,        \* the output path's content before the run
    output_file,     \* the output path's content now
    issue_date,      \* args.invoice_date / issue_date: [year, month, day]
    account_id,      \* args.billing_account_id
    account_name,    \* args.billing_account_name
    items,           \* the list handed to process_data (read_items); records mutate in place
    named_resources, \* dict service_id -> title
    prepared_data,   \* process_data's local list: references (indices) into items
    idx,             \* position of the for loop of line 29
    result,          \* value returned by process_data, NotReturned before / without a return
    exc,             \* the exception raised, "none" while there is none
    failed_line,     \* source line that raised, 0 while there is none
    write_calls,     \* number of invocations of write_to_csv
    fieldnames,      \* main's fieldnames: the key set of the first prepared record
    stdout,          \* messages printed by main
    pc               \* control position

vars == <<entry, input_file, out_init, output_file, issue_date, account_id,
          account_name, items, named_resources, prepared_data, idx, result,
          exc, failed_line, write_calls, fieldnames, stdout, pc>>

----------------------------------------------------------------------------
(* Bounds *)

MaxItems == 3

----------------------------------------------------------------------------
(* Strings *)

EmptyStr == <<>>
Space == " "
DigitChars == <<"0", "1", "2", "3", "4", "5", "6", "7", "8", "9">>
Whitespace == {" ", "\t", "\n", "\r"}

\* A path that names no file, and a file with its content.
NoFile == [exists |-> FALSE, header |-> {}, rows |-> <<>>]
File(header, rows) == [exists |-> TRUE, header |-> header, rows |-> rows]

\* process_data has not returned / has returned list.
NotReturned == [returned |-> FALSE, value |-> <<>>]
Returned(list) == [returned |-> TRUE, value |-> list]

\* str.split(" "): cut at every single space; n spaces give n+1 pieces,
\* empty pieces included.
RECURSIVE SplitOnSpace(_)
SplitOnSpace(s) ==
    IF \A k \in 1..Len(s) : s[k] # Space
    THEN <<s>>
    ELSE LET k == CHOOSE j \in 1..Len(s) :
                      s[j] = Space /\ \A m \in 1..(j-1) : s[m] # Space
         IN <<SubSeq(s, 1, k-1)>> \o SplitOnSpace(SubSeq(s, k+1, Len(s)))

\* " ".join(parts)
RECURSIVE JoinWithSpace(_)
JoinWithSpace(parts) ==
    IF Len(parts) = 0 THEN EmptyStr
    ELSE IF Len(parts) = 1 THEN parts[1]
    ELSE parts[1] \o <<Space>> \o JoinWithSpace(Tail(parts))

\* float() ignores leading and trailing whitespace.
RECURSIVE Strip(_)
Strip(s) ==
    IF Len(s) = 0 THEN s
    ELSE IF s[1] \in Whitespace THEN Strip(Tail(s))
    ELSE IF s[Len(s)] \in Whitespace THEN Strip(SubSeq(s, 1, Len(s)-1))
    ELSE s

DigitValue(c) == (CHOOSE k \in 1..10 : DigitChars[k] = c) - 1
IsDigit(c) == \E k \in 1..10 : DigitChars[k] = c

\* float(s) succeeds: over the characters used here (digits, letters other
\* than those of inf/nan/e, whitespace) that is a non-empty run of digits
\* once stripped.
FloatParses(s) ==
    LET t == Strip(s) IN Len(t) > 0 /\ \A k \in 1..Len(t) : IsDigit(t[k])

RECURSIVE DecimalValue(_)
DecimalValue(t) ==
    IF Len(t) = 0 THEN 0
    ELSE 10 * DecimalValue(SubSeq(t, 1, Len(t)-1)) + DigitValue(t[Len(t)])

FloatValue(s) == DecimalValue(Strip(s))

RECURSIVE Gcd(_, _)
Gcd(a, b) == IF b = 0 THEN a ELSE Gcd(b, a % b)

\* a / b for b # 0, kept exact as a fraction in lowest terms.
FloatDiv(a, b) ==
    LET g == Gcd(a, b) IN
    IF g = 0 THEN [num |-> 0, den |-> 1] ELSE [num |-> a \div g, den |-> b \div g]

----------------------------------------------------------------------------
(* Dates *)

mdays == <<31, 28, 31, 30, 31, 30, 31, 31, 30, 31, 30, 31>>

\* Julian rule: every fourth year is a leap year.
isleap_every_fourth(year) == year % 4 = 0

isleap(year) == year % 4 = 0 /\ (year % 100 # 0 \/ year % 400 = 0)

\* calendar.monthrange(year, month)[1]
monthrange_ndays(year, month) ==
    mdays[month] + (IF month = 2 /\ isleap(year) THEN 1 ELSE 0)

TwoDigits(n) == <<DigitChars[(n \div 10) + 1], DigitChars[(n % 10) + 1]>>

\* date.strftime("%d.%m.%y")
strftime(d) ==
    TwoDigits(d.day) \o <<".">> \o TwoDigits(d.month) \o <<".">>
        \o TwoDigits(d.year % 100)

\* date.replace(day=n)
replace_day(d, n) == [d EXCEPT !.day = n]

billing_start_of(d) == strftime(d)

billing_end_of(d) == strftime(replace_day(d, monthrange_ndays(d.year, d.month)))

----------------------------------------------------------------------------
(* Dicts *)

Has(r, k) == k \in DOMAIN r

\* r[k] = v
Put(r, k, v) == [x \in (DOMAIN r) \cup {k} |-> IF x = k THEN v ELSE r[x]]

\* d.get(k, default)
DictGet(d, k, default) == IF k \in DOMAIN d THEN d[k] ELSE default

EmptyDict == [x \in {} |-> EmptyStr]

Raised(kind, line, r) == [exc |-> kind, line |-> line, rec |-> r]
Completed(r) == [exc |-> "none", line |-> 0, rec |-> r]

----------------------------------------------------------------------------
(* process_data, lines 22-26: the dict comprehension *)

\* setdefault instead of assignment: the first record with a key keeps it.
comprehension_store_first(acc, key, value) ==
    IF key \in DOMAIN acc THEN acc ELSE Put(acc, key, value)

\* named_resources[key] = value inside the comprehension: a later record with
\* the same key replaces the earlier entry.
comprehension_store(acc, key, value) == Put(acc, key, value)

\* The comprehension over records recs, continuing from table acc.  The
\* condition reads parent_service_id, then (short-circuit) title; the key
\* service_id is read only for records that pass the condition.
RECURSIVE named_resources_of(_, _)
named_resources_of(recs, acc) ==
    IF Len(recs) = 0 THEN [exc |-> "none", table |-> acc]
    ELSE LET record == Head(recs) IN
         IF ~Has(record, "parent_service_id")
         THEN [exc |-> "KeyError", table |-> acc]
         ELSE IF record["parent_service_id"] # EmptyStr
         THEN named_resources_of(Tail(recs), acc)
         ELSE IF ~Has(record, "title")
         THEN [exc |-> "KeyError", table |-> acc]
         ELSE IF record["title"] = EmptyStr
         THEN named_resources_of(Tail(recs), acc)
         ELSE IF ~Has(record, "service_id")
         THEN [exc |-> "KeyError", table |-> acc]
         ELSE named_resources_of(Tail(recs),
                  comprehension_store(acc, record["service_id"], record["title"]))

----------------------------------------------------------------------------
(* process_data, lines 30-52: the body of the loop for one record *)

\* Only a found parent replaces the title.
resolve_title_if_found(record, table) ==
    IF record["parent_service_id"] # EmptyStr
       /\ record["parent_service_id"] \in DOMAIN table
    THEN Put(record, "title", table[record["parent_service_id"]])
    ELSE record

\* lines 30-31
resolve_title(record, table) ==
    IF record["parent_service_id"] # EmptyStr
    THEN Put(record, "title", DictGet(table, record["parent_service_id"], EmptyStr))
    ELSE record

\* line 34
first_word(title) == SplitOnSpace(title)[1]

\* lines 46-50
usage_unit_of(quantity) ==
    IF Len(SplitOnSpace(quantity)) > 1 THEN SplitOnSpace(quantity)[2] ELSE EmptyStr

\* line 51
quantity_of(quantity) == SplitOnSpace(quantity)[1]

\* A zero quantity gives a zero price instead of an exception.
list_unit_price_zero_safe(record) ==
    IF ~Has(record, "subotal") THEN Raised("KeyError", 52, record)
    ELSE IF ~FloatParses(record["subotal"]) THEN Raised("ValueError", 52, record)
    ELSE IF ~FloatParses(record["quantity"]) THEN Raised("ValueError", 52, record)
    ELSE IF FloatValue(record["quantity"]) = 0
    THEN Completed(Put(record, "list_unit_price", FloatDiv(0, 1)))
    ELSE Completed(Put(record, "list_unit_price",
             FloatDiv(FloatValue(record["subotal"]), FloatValue(record["quantity"]))))

\* line 52: float(record["subotal"]) / float(record["quantity"]); the left
\* operand is evaluated first.
list_unit_price_of(record) ==
    IF ~Has(record, "subotal") THEN Raised("KeyError", 52, record)
    ELSE IF ~FloatParses(record["subotal"]) THEN Raised("ValueError", 52, record)
    ELSE IF ~FloatParses(record["quantity"]) THEN Raised("ValueError", 52, record)
    ELSE IF FloatValue(record["quantity"]) = 0
    THEN Raised("ZeroDivisionError", 52, record)
    ELSE Completed(Put(record, "list_unit_price",
             FloatDiv(FloatValue(record["subotal"]), FloatValue(record["quantity"]))))

\* lines 30-52 on one record: the record as the iteration leaves it, and the
\* exception and line if one is raised on the way.
loop_body(record, table, d, aid, aname) ==
    IF ~Has(record, "parent_service_id") THEN Raised("KeyError", 30, record)
    ELSE
    LET r31 == resolve_title(record, table) IN
    IF ~Has(r31, "title") THEN Raised("KeyError", 34, r31)
    ELSE
    LET r34 == Put(r31, "title", first_word(r31["title"]))
        r37 == Put(r34, "billing_start", billing_start_of(d))
        r38 == Put(r37, "billing_end", billing_end_of(d))
        r41 == Put(r38, "billing_account_id", aid)
        r42 == Put(r41, "billing_account_name", aname)
    IN
    IF ~Has(r42, "service_type") \/ ~Has(r42, "description")
    THEN Raised("KeyError", 44, r42)
    ELSE
    LET r43 == Put(r42, "description",
                   JoinWithSpace(<<r42["title"], r42["service_type"],
                                   r42["description"]>>))
    IN
    IF ~Has(r43, "quantity") THEN Raised("KeyError", 47, r43)
    ELSE
    LET r46 == Put(r43, "usage_unit", usage_unit_of(r43["quantity"]))
        r51 == Put(r46, "quantity", quantity_of(r46["quantity"]))
    IN list_unit_price_of(r51)

\* The loop works on a copy of the record; the caller's list keeps its rows.
store_record_on_copy(list, i, r) == list

\* prepared_data.insert(0, record)
append_record_in_front(list, ref) == <<ref>> \o list

\* An empty result has no field names, and no error.
fieldnames_or_none(list, refs) ==
    IF Len(refs) = 0 THEN [exc |-> "none", names |-> {}]
    ELSE [exc |-> "none", names |-> DOMAIN list[refs[1]]]

\* record["..."] = ... on the i-th object of the caller's list
store_record(list, i, r) == [list EXCEPT ![i] = r]

\* line 53: prepared_data.append(record)
append_record(list, ref) == Append(list, ref)

\* line 109: prepared_data[0].keys()
fieldnames_of(list, refs) ==
    IF Len(refs) = 0 THEN [exc |-> "IndexError", names |-> {}]
    ELSE [exc |-> "none", names |-> DOMAIN list[refs[1]]]

----------------------------------------------------------------------------
(* Inputs *)

S1 == <<"1">>
S2 == <<"2">>

\* A row with every required key.
Rec(sid, psid, title, qty, sub) ==
    [service_id |-> sid, parent_service_id |-> psid, title |-> title,
     service_type |-> <<"v">>, description |-> <<"d">>,
     quantity |-> qty, subotal |-> sub]

\* The same row without key k.
Without(r, k) == [x \in (DOMAIN r) \ {k} |-> r[x]]

RequiredKeys == {"service_id", "parent_service_id", "title", "service_type",
                 "description", "quantity", "subotal"}

GoodTop == Rec(S1, EmptyStr, <<"A", " ", "B">>, <<"5", " ", "h">>, <<"1", "0">>)
GoodChild == Rec(S2, S1, <<"C">>, <<"4">>, <<"1", "0">>)
UntitledTop == Rec(S1, EmptyStr, EmptyStr, <<"5", " ", "h">>, <<"1", "0">>)

\* Rows that differ in quantity and subotal.
QuantityRecords ==
    {GoodTop, GoodChild}
    \cup {Rec(S1, EmptyStr, <<"A", " ", "B">>, q, <<"1", "0">>) :
            q \in {<<"5", " ", " ", "h">>, <<" ", "5", " ", "h">>,
                   <<"0", " ", "h">>, <<"h">>, <<"5", "\t", "h">>, EmptyStr}}
    \cup {Rec(S1, EmptyStr, <<"A", " ", "B">>, <<"5", " ", "h">>, sub) :
            sub \in {<<" ", "1", "0">>, <<"x">>}}

\* Rows that differ in service_id, parent_service_id and title.
NameRecords ==
    {Rec(S1, EmptyStr, t, <<"5", " ", "h">>, <<"1", "0">>) :
        t \in {EmptyStr, <<"A", " ", "B">>, <<"C">>, <<" ", "A">>}}
    \cup {Rec(S2, EmptyStr, <<"C">>, <<"5", " ", "h">>, <<"1", "0">>),
          GoodChild,
          Rec(S1, EmptyStr, <<"A", " ", "B">>, <<"0", " ", "h">>, <<"1", "0">>)}

\* Rows that lack one required key.
KeyRecords ==
    {GoodTop, GoodChild}
    \cup {Without(GoodChild, k) : k \in RequiredKeys}
    \cup {Without(GoodTop, k) : k \in {"service_id", "title", "quantity"}}
    \cup {Without(UntitledTop, k) : k \in {"service_id", "title"}}
    \cup {Rec(S1, EmptyStr, <<"A", " ", "B">>, <<"0", " ", "h">>, <<"1", "0">>)}

Lists(Records) == UNION {[1..n -> Records] : n \in 0..MaxItems}

\* csv.DictReader gives every row the keys of the header line.
SameKeys(list) == \A i, j \in 1..Len(list) : DOMAIN list[i] = DOMAIN list[j]

Date(y, m, d) == [year |-> y, month |-> m, day |-> d]

SomeDates == {Date(2024, 2, 15), Date(2023, 12, 1)}

Years == {1900, 2000, 2023, 2024, 2100}

\* Every date strptime("%d.%m.%Y") accepts in those years.
AllDates ==
    {dt \in {Date(y, m, d) : y \in Years, m \in 1..12, d \in 1..31} :
        dt.day <= monthrange_ndays(dt.year, dt.month)}

\* Lists used where the date is what varies.
FewLists ==
    {<<>>, <<GoodTop>>, <<GoodTop, GoodChild>>,
     <<Rec(S1, EmptyStr, <<"C">>, <<"0", " ", "h">>, <<"1", "0">>)>>,
     <<Without(GoodTop, "title")>>}

\* --billing-account-id and --billing-account-name: the defaults of lines
\* 83-85 and one other value each.
AccountIds == {<<"1">>, <<"7">>}
DefaultAccountName ==
    <<"M", "y", " ", "o", "r", "g", "a", "n", "i", "z", "a", "t", "i", "o", "n">>

\* What the output path holds before the run: nothing, or an earlier file.
OldFile == File({"old"}, <<>>)

----------------------------------------------------------------------------
(* Initial states *)

\* Only the rows of the input matter; its header is the rows' key set.
InputFile(list) == File({}, list)

InitWith(ListSet, Dates) ==
    /\ entry \in {"main", "call"}
    /\ input_file \in (IF entry = "main"
                        THEN {NoFile} \cup {InputFile(l) : l \in {x \in ListSet : SameKeys(x)}}
                        ELSE {InputFile(l) : l \in ListSet})
    /\ out_init \in (IF entry = "main" THEN {NoFile, OldFile} ELSE {NoFile})
    /\ output_file = out_init
    /\ issue_date \in Dates
    /\ account_id \in (IF entry = "main" THEN {<<"1">>} ELSE AccountIds)
    /\ account_name = DefaultAccountName
    /\ items = <<>>
    /\ named_resources = EmptyDict
    /\ prepared_data = <<>>
    /\ idx = 1
    /\ result = NotReturned
    /\ exc = "none"
    /\ failed_line = 0
    /\ write_calls = 0
    /\ fieldnames = {}
    /\ stdout = <<>>
    /\ pc = "start"

Init == InitWith(Lists(QuantityRecords), SomeDates)
InitNames == InitWith(Lists(NameRecords), SomeDates)
InitKeys == InitWith(Lists(KeyRecords), SomeDates)
InitDates == InitWith(FewLists, AllDates)

----------------------------------------------------------------------------
(* Actions *)

\* An exception leaves process_data; main catches it at line 113, a direct
\* caller receives it.
Raise(kind, line) ==
    /\ exc' = kind
    /\ failed_line' = line
    /\ pc' = IF entry = "main" THEN "except" ELSE "done"

\* lines 9-12, called at line 93
validate_input_file ==
    /\ entry = "main" /\ pc = "start"
    /\ IF ~input_file.exists
       THEN Raise("FileNotFoundError", 12)
       ELSE pc' = "validated" /\ UNCHANGED <<exc, failed_line>>
    /\ UNCHANGED <<entry, input_file, out_init, output_file, issue_date,
                   account_id, account_name, items, named_resources,
                   prepared_data, idx, result, write_calls, fieldnames, stdout>>

\* lines 96-98, then the call of line 101
read_csv ==
    /\ entry = "main" /\ pc = "validated"
    /\ items' = input_file.rows
    /\ pc' = "process_data"
    /\ UNCHANGED <<entry, input_file, out_init, output_file, issue_date,
                   account_id, account_name, named_resources, prepared_data,
                   idx, result, exc, failed_line, write_calls, fieldnames, stdout>>

\* process_data called by another caller with its own list
call_process_data ==
    /\ entry = "call" /\ pc = "start"
    /\ items' = input_file.rows
    /\ pc' = "process_data"
    /\ UNCHANGED <<entry, input_file, out_init, output_file, issue_date,
                   account_id, account_name, named_resources, prepared_data,
                   idx, result, exc, failed_line, write_calls, fieldnames, stdout>>

\* lines 22-27
build_named_resources ==
    /\ pc = "process_data"
    /\ LET built == named_resources_of(items, EmptyDict) IN
       IF built.exc # "none"
       THEN Raise(built.exc, 22) /\ UNCHANGED <<named_resources, prepared_data, idx>>
       ELSE /\ named_resources' = built.table
            /\ prepared_data' = <<>>
            /\ idx' = 1
            /\ pc' = "loop"
            /\ UNCHANGED <<exc, failed_line>>
    /\ UNCHANGED <<entry, input_file, out_init, output_file, issue_date,
                   account_id, account_name, items, result, write_calls,
                   fieldnames, stdout>>

\* lines 29-53: one iteration of the loop
process_record ==
    /\ pc = "loop" /\ idx <= Len(items)
    /\ LET out == loop_body(items[idx], named_resources, issue_date,
                            account_id, account_name) IN
       /\ items' = store_record(items, idx, out.rec)
       /\ IF out.exc # "none"
          THEN Raise(out.exc, out.line) /\ UNCHANGED <<prepared_data, idx>>
          ELSE /\ prepared_data' = append_record(prepared_data, idx)
               /\ idx' = idx + 1
               /\ UNCHANGED <<exc, failed_line, pc>>
    /\ UNCHANGED <<entry, input_file, out_init, output_file, issue_date,
                   account_id, account_name, named_resources, result,
                   write_calls, fieldnames, stdout>>

\* line 55
return_prepared_data ==
    /\ pc = "loop" /\ idx > Len(items)
    /\ result' = Returned(prepared_data)
    /\ pc' = IF entry = "main" THEN "fieldnames" ELSE "done"
    /\ UNCHANGED <<entry, input_file, out_init, output_file, issue_date,
                   account_id, account_name, items, named_resources,
                   prepared_data, idx, exc, failed_line, write_calls,
                   fieldnames, stdout>>

\* line 109
get_fieldnames ==
    /\ pc = "fieldnames"
    /\ LET got == fieldnames_of(items, result.value) IN
       IF got.exc # "none"
       THEN Raise(got.exc, 109) /\ UNCHANGED fieldnames
       ELSE /\ fieldnames' = got.names
            /\ pc' = "write"
            /\ UNCHANGED <<exc, failed_line>>
    /\ UNCHANGED <<entry, input_file, out_init, output_file, issue_date,
                   account_id, account_name, items, named_resources,
                   prepared_data, idx, result, write_calls, stdout>>

\* lines 58-65, called at line 110.  open(..., "w") truncates; DictWriter
\* refuses a row that has a key outside fieldnames, after the rows before it.
write_to_csv ==
    /\ pc = "write"
    /\ write_calls' = write_calls + 1
    /\ LET rows == [i \in 1..Len(result.value) |-> items[result.value[i]]]
           fits(i) == DOMAIN rows[i] \subseteq fieldnames
       IN IF \A i \in 1..Len(rows) : fits(i)
          THEN /\ output_file' = File(fieldnames, rows)
               /\ pc' = "written"
               /\ UNCHANGED <<exc, failed_line>>
          ELSE LET bad == CHOOSE i \in 1..Len(rows) :
                              ~fits(i) /\ \A j \in 1..(i-1) : fits(j)
               IN /\ output_file' = File(fieldnames, SubSeq(rows, 1, bad - 1))
                  /\ Raise("ValueError", 65)
    /\ UNCHANGED <<entry, input_file, out_init, issue_date, account_id,
                   account_name, items, named_resources, prepared_data, idx,
                   result, fieldnames, stdout>>

\* line 112
print_complete ==
    /\ pc = "written"
    /\ stdout' = Append(stdout, "Processing complete")
    /\ pc' = "done"
    /\ UNCHANGED <<entry, input_file, out_init, output_file, issue_date,
                   account_id, account_name, items, named_resources,
                   prepared_data, idx, result, exc, failed_line, write_calls,
                   fieldnames>>

\* lines 113-114
print_error ==
    /\ pc = "except"
    /\ stdout' = Append(stdout, "Error")
    /\ pc' = "done"
    /\ UNCHANGED <<entry, input_file, out_init, output_file, issue_date,
                   account_id, account_name, items, named_resources,
                   prepared_data, idx, result, exc, failed_line, write_calls,
                   fieldnames>>

Next ==
    \/ validate_input_file
    \/ read_csv
    \/ call_process_data
    \/ build_named_resources
    \/ process_record
    \/ return_prepared_data
    \/ get_fieldnames
    \/ write_to_csv
    \/ print_complete
    \/ print_error

Spec == Init /\ [][Next]_vars
SpecNames == InitNames /\ [][Next]_vars
SpecKeys == InitKeys /\ [][Next]_vars
SpecDates == InitDates /\ [][Next]_vars

----------------------------------------------------------------------------
(* Vocabulary of the properties *)

\* The records as they were handed in: the input is never rewritten.
Orig == input_file.rows

\* The i-th record process_data returned.
Output(i) == items[result.value[i]]

\* The whitespace-delimited tokens of s: maximal runs of non-whitespace.
RECURSIVE Tokens(_)
Tokens(s) ==
    IF Len(s) = 0 THEN <<>>
    ELSE IF s[1] \in Whitespace THEN Tokens(Tail(s))
    ELSE LET n == CHOOSE j \in 1..Len(s) :
                      /\ \A m \in 1..j : s[m] \notin Whitespace
                      /\ (j = Len(s) \/ s[j+1] \in Whitespace)
         IN <<SubSeq(s, 1, n)>> \o Tokens(SubSeq(s, n+1, Len(s)))

\* The n-th whitespace-delimited token of s, empty when there is none.
Token(s, n) == IF Len(Tokens(s)) >= n THEN Tokens(s)[n] ELSE EmptyStr

\* A top-level record with a name.
NamedTop(r) ==
    /\ RequiredKeys \subseteq DOMAIN r
    /\ r["parent_service_id"] = EmptyStr
    /\ r["title"] # EmptyStr

EnrichedKeys ==
    {"title", "billing_start", "billing_end", "billing_account_id",
     "billing_account_name", "description", "usage_unit", "quantity",
     "list_unit_price"}

----------------------------------------------------------------------------
(* C1 *)

\* C1: when process_data returns, the returned list is as long as the input
\* list and its i-th record is the enrichment of the i-th input record.
C1_SameCountSameOrder ==
    result.returned =>
        /\ Len(result.value) = Len(Orig)
        /\ \A i \in 1..Len(result.value) :
              /\ Output(i) = loop_body(Orig[i], named_resources, issue_date,
                                       account_id, account_name).rec
              /\ \A k \in (DOMAIN Orig[i]) \ EnrichedKeys :
                    Output(i)[k] = Orig[i][k]

C1_Witness ==
    /\ result.returned
    /\ Len(Orig) = 3
    /\ Orig[1] # Orig[2] /\ Orig[2] # Orig[3] /\ Orig[1] # Orig[3]
    /\ Output(1)["subotal"] = Orig[1]["subotal"]
    /\ Output(3)["service_id"] = Orig[3]["service_id"]

----------------------------------------------------------------------------
(* C2 *)

\* C2: every output title is the first whitespace-delimited token of the
\* record's own original title (no parent), or of the original title of a
\* named top-level record whose service_id is the record's parent_service_id,
\* or empty when there is no such record; for every title.
C2_TitleIsFirstToken ==
    result.returned =>
        \A i \in 1..Len(result.value) :
            LET o == Orig[i]
                parents == {j \in 1..Len(Orig) :
                               NamedTop(Orig[j])
                               /\ Orig[j]["service_id"] = o["parent_service_id"]}
            IN IF o["parent_service_id"] = EmptyStr
               THEN Output(i)["title"] = Token(o["title"], 1)
               ELSE IF parents # {}
               THEN \E j \in parents :
                        Output(i)["title"] = Token(Orig[j]["title"], 1)
               ELSE Output(i)["title"] = EmptyStr

----------------------------------------------------------------------------
(* C3 *)

\* C3: for every issue_date, billing_start of every output record is the
\* first day of issue_date's month as DD.MM.YY: its day part is "01".
C3_BillingStartIsFirstOfMonth ==
    result.returned =>
        \A i \in 1..Len(result.value) :
            /\ SubSeq(Output(i)["billing_start"], 1, 2) = <<"0", "1">>
            /\ Output(i)["billing_start"]
                   = strftime(Date(issue_date.year, issue_date.month, 1))

----------------------------------------------------------------------------
(* C4 *)

LastDayOfMonth(y, m) ==
    IF m \in {1, 3, 5, 7, 8, 10, 12} THEN 31
    ELSE IF m \in {4, 6, 9, 11} THEN 30
    ELSE IF (y % 4 = 0 /\ y % 100 # 0) \/ y % 400 = 0 THEN 29
    ELSE 28

\* C4: billing_end of every output record is the last calendar day of
\* issue_date's month, with issue_date's month and two-digit year, as
\* DD.MM.YY; 2024-02-01 gives "01.02.24" and "29.02.24".
C4_BillingEndIsLastOfMonth ==
    result.returned =>
        \A i \in 1..Len(result.value) :
            /\ Output(i)["billing_end"]
                   = TwoDigits(LastDayOfMonth(issue_date.year, issue_date.month))
                         \o <<".">> \o TwoDigits(issue_date.month)
                         \o <<".">> \o TwoDigits(issue_date.year % 100)
            /\ Len(Output(i)["billing_end"]) = 8
            /\ issue_date = Date(2024, 2, 1) =>
                  /\ Output(i)["billing_start"]
                         = <<"0", "1", ".", "0", "2", ".", "2", "4">>
                  /\ Output(i)["billing_end"]
                         = <<"2", "9", ".", "0", "2", ".", "2", "4">>
            /\ issue_date = Date(1900, 2, 10) =>
                  Output(i)["billing_end"]
                      = <<"2", "8", ".", "0", "2", ".", "0", "0">>

C4_Witness ==
    /\ result.returned
    /\ Len(result.value) = 2
    /\ issue_date = Date(2024, 2, 1)
    /\ Output(2)["billing_end"] = <<"2", "9", ".", "0", "2", ".", "2", "4">>

----------------------------------------------------------------------------
(* C5 *)

\* C5: the output quantity is the first whitespace-delimited token of the
\* original quantity and usage_unit the second, empty when there is none;
\* for every original quantity.
C5_QuantityAndUnitAreTokens ==
    result.returned =>
        \A i \in 1..Len(result.value) :
            /\ Output(i)["quantity"] = Token(Orig[i]["quantity"], 1)
            /\ Output(i)["usage_unit"] = Token(Orig[i]["quantity"], 2)

----------------------------------------------------------------------------
(* C6 *)

\* A record whose quantity's first token is zero or no number, or whose
\* subotal is no number.
BadNumbers(r) ==
    /\ {"quantity", "subotal"} \subseteq DOMAIN r
    /\ \/ ~FloatParses(Token(r["quantity"], 1))
       \/ FloatValue(Token(r["quantity"], 1)) = 0
       \/ ~FloatParses(r["subotal"])

NoOutputWritten ==
    /\ write_calls = 0
    /\ output_file = out_init
    /\ pc \notin {"write", "written"}
    /\ \A n \in 1..Len(stdout) : stdout[n] # "Processing complete"

\* C6: if a record at any position has a zero or unparsable quantity token or
\* an unparsable subotal, process_data returns nothing, write_to_csv is never
\* invoked, the output path keeps what it held, and main ends with the error
\* message and without the completion message.
C6_BadNumberAbortsBatch ==
    (\E i \in 1..Len(Orig) : BadNumbers(Orig[i])) =>
        /\ ~result.returned
        /\ NoOutputWritten
        /\ pc = "done" => exc # "none"
        /\ (pc = "done" /\ entry = "main") => stdout = <<"Error">>

C6_Witness ==
    /\ entry = "main" /\ pc = "done"
    /\ Len(Orig) = 3
    /\ ~BadNumbers(Orig[1]) /\ ~BadNumbers(Orig[2]) /\ BadNumbers(Orig[3])
    /\ exc = "ZeroDivisionError" /\ failed_line = 52
    /\ stdout = <<"Error">>
    /\ out_init = OldFile /\ output_file = OldFile
    /\ write_calls = 0

----------------------------------------------------------------------------
(* C7 *)

LacksRequiredKey(r) == ~(RequiredKeys \subseteq DOMAIN r)

\* C7 as claimed: a record that lacks any required key makes process_data
\* fail, whatever its other fields.
C7_AnyMissingKeyFails ==
    (\E i \in 1..Len(Orig) : LacksRequiredKey(Orig[i])) => ~result.returned

\* The keys the code reads whatever the record holds, and the ones it reads
\* only for some records.
LacksKeyTheCodeReads(r) ==
    \/ ~({"parent_service_id", "service_type", "description", "quantity",
          "subotal"} \subseteq DOMAIN r)
    \/ /\ r["parent_service_id"] = EmptyStr
       /\ \/ ~Has(r, "title")
          \/ r["title"] # EmptyStr /\ ~Has(r, "service_id")

\* C7 amended: process_data fails when a record lacks parent_service_id,
\* service_type, description, quantity or subotal, or lacks title while
\* parent_service_id is empty, or lacks service_id while parent_service_id is
\* empty and title is not.  A missing title of a child, and a missing
\* service_id of a child or of an untitled record, is never read: a batch
\* whose only gaps are of that kind, with parsable non-zero numbers, returns.
C7_MissingReadKeyFails ==
    /\ (\E i \in 1..Len(Orig) : LacksKeyTheCodeReads(Orig[i])) =>
           /\ ~result.returned
           /\ pc = "done" => exc # "none"
    /\ ( /\ pc = "done" /\ input_file.exists
         /\ \A i \in 1..Len(Orig) :
               ~LacksKeyTheCodeReads(Orig[i]) /\ ~BadNumbers(Orig[i])
         /\ entry = "call" )
       => result.returned /\ exc = "none"

C7_Witness ==
    /\ entry = "call" /\ pc = "done"
    /\ Len(Orig) = 3
    /\ ~LacksRequiredKey(Orig[1])
    /\ LacksRequiredKey(Orig[2]) /\ ~LacksKeyTheCodeReads(Orig[2])
    /\ LacksKeyTheCodeReads(Orig[3]) /\ ~Has(Orig[3], "service_type")
    /\ exc = "KeyError" /\ failed_line = 44
    /\ ~result.returned

----------------------------------------------------------------------------
(* C8 *)

TopLevel(r) == r["parent_service_id"] = EmptyStr

\* The table has been built and the loop is running or has run.
TableBuilt == pc = "loop" \/ result.returned

\* The name the table resolves service_id sid to.
ResolvedName(sid) == DictGet(named_resources, sid, EmptyStr)

TableOnlyNamedTops ==
    \A sid \in DOMAIN named_resources :
        \E j \in 1..Len(Orig) :
            /\ NamedTop(Orig[j])
            /\ Orig[j]["service_id"] = sid
            /\ Orig[j]["title"] = named_resources[sid]

\* C8 as claimed: of two top-level records with one service_id, the later one
\* names every child that refers to it, whatever the two titles; and the
\* table holds no entry of a child or of an untitled record.
C8_LaterRecordWins ==
    TableBuilt =>
        /\ \A a, b, c \in 1..Len(Orig) :
              ( /\ a < b
                /\ TopLevel(Orig[a]) /\ TopLevel(Orig[b])
                /\ Orig[a]["service_id"] = Orig[b]["service_id"]
                /\ \A j \in 1..Len(Orig) :
                      (TopLevel(Orig[j]) /\ Orig[j]["service_id"] = Orig[a]["service_id"])
                          => j \in {a, b}
                /\ Orig[c]["parent_service_id"] = Orig[a]["service_id"] )
              => ResolvedName(Orig[c]["parent_service_id"]) = Orig[b]["title"]
        /\ TableOnlyNamedTops

\* The title of the last named top-level record with service_id sid, empty
\* when there is none.
LastNamedTitle(sid) ==
    LET named == {j \in 1..Len(Orig) :
                     NamedTop(Orig[j]) /\ Orig[j]["service_id"] = sid}
    IN IF named = {} THEN EmptyStr
       ELSE Orig[CHOOSE j \in named : \A m \in named : m <= j]["title"]

\* C8 amended: the later of the two records wins when its title is not empty,
\* whatever the earlier title; when the later title is empty the earlier
\* record's title stands: the last record among those with a non-empty title
\* names the children.  The table holds no entry of a child or of an untitled
\* record.
C8_LaterNamedRecordWins ==
    TableBuilt =>
        /\ \A c \in 1..Len(Orig) :
              Orig[c]["parent_service_id"] # EmptyStr =>
                  /\ ResolvedName(Orig[c]["parent_service_id"])
                         = LastNamedTitle(Orig[c]["parent_service_id"])
                  /\ c < idx =>
                        items[c]["title"]
                            = first_word(LastNamedTitle(Orig[c]["parent_service_id"]))
        /\ \A a, b \in 1..Len(Orig) :
              ( /\ a < b
                /\ NamedTop(Orig[a]) /\ NamedTop(Orig[b])
                /\ Orig[a]["service_id"] = Orig[b]["service_id"]
                /\ \A j \in (b+1)..Len(Orig) :
                      ~(NamedTop(Orig[j]) /\ Orig[j]["service_id"] = Orig[a]["service_id"]) )
              => ResolvedName(Orig[a]["service_id"]) = Orig[b]["title"]
        /\ TableOnlyNamedTops

C8_Witness ==
    /\ pc = "loop" /\ idx = 4
    /\ Len(Orig) = 3
    /\ NamedTop(Orig[1]) /\ NamedTop(Orig[2])
    /\ Orig[1]["service_id"] = Orig[2]["service_id"]
    /\ Orig[1]["title"] = <<"A", " ", "B">> /\ Orig[2]["title"] = <<"C">>
    /\ Orig[3]["parent_service_id"] = Orig[1]["service_id"]
    /\ named_resources[Orig[1]["service_id"]] = <<"C">>
    /\ items[3]["title"] = <<"C">>

----------------------------------------------------------------------------
(* C9 *)

\* C9: an input file that exists and holds no data row ends main with the
\* error message and no completion message; write_to_csv is never invoked and
\* the output path keeps what it held.
C9_EmptyInputIsFatal ==
    (entry = "main" /\ input_file.exists /\ Len(Orig) = 0) =>
        /\ NoOutputWritten
        /\ pc = "done" => (exc = "IndexError" /\ stdout = <<"Error">>)

C9_Witness ==
    /\ entry = "main" /\ input_file.exists /\ Len(Orig) = 0
    /\ pc = "done"
    /\ result.returned /\ result.value = <<>>
    /\ exc = "IndexError" /\ failed_line = 109
    /\ stdout = <<"Error">>
    /\ out_init = OldFile /\ output_file = OldFile

----------------------------------------------------------------------------
(* C10 *)

OverwrittenBeforePrice ==
    {"title", "billing_start", "billing_end", "billing_account_id",
     "billing_account_name", "description", "usage_unit", "quantity"}

\* process_data raised inside the loop, at the record at position idx.
FailedInLoop == exc # "none" /\ failed_line \in 30..52

ReturnsTheSameObjects ==
    result.returned =>
        /\ Len(result.value) = Len(Orig)
        /\ \A i \in 1..Len(result.value) :
              /\ result.value[i] = i
              /\ EnrichedKeys \subseteq DOMAIN items[i]

\* Records before idx are fully enriched and records after idx are as they
\* were handed in.
OthersAsLeft ==
    /\ \A j \in 1..(idx - 1) : EnrichedKeys \subseteq DOMAIN items[j]
    /\ \A j \in (idx + 1)..Len(Orig) : items[j] = Orig[j]

\* The record at idx has every enriched field but list_unit_price.
AllButPriceOverwritten ==
    LET o == Orig[idx]
        r == items[idx]
    IN /\ OverwrittenBeforePrice \subseteq DOMAIN r
       /\ ~Has(r, "list_unit_price")
       /\ DOMAIN r = (DOMAIN o) \cup OverwrittenBeforePrice
       /\ r["billing_start"] = billing_start_of(issue_date)
       /\ r["billing_end"] = billing_end_of(issue_date)
       /\ r["billing_account_id"] = account_id
       /\ r["billing_account_name"] = account_name
       /\ r["title"] = SplitOnSpace(
              IF o["parent_service_id"] = EmptyStr THEN o["title"]
              ELSE ResolvedName(o["parent_service_id"]))[1]
       /\ r["description"]
              = r["title"] \o <<Space>> \o o["service_type"]
                    \o <<Space>> \o o["description"]
       /\ r["description"] # o["description"]
       /\ r["quantity"] = SplitOnSpace(o["quantity"])[1]
       /\ r["usage_unit"] = usage_unit_of(o["quantity"])

\* C10 as claimed: the returned records are the caller's own objects, and
\* whenever process_data fails at the record with index k, records before k
\* are fully enriched, record k has every enriched field but list_unit_price
\* overwritten, and records after k are untouched.
C10_FailureLeavesAllButPrice ==
    /\ ReturnsTheSameObjects
    /\ FailedInLoop => (OthersAsLeft /\ AllButPriceOverwritten)

\* C10 amended: the returned records are the caller's own objects; whenever
\* process_data fails at record k, records before k are fully enriched and
\* records after k are untouched; and when the failure is in the price
\* computation of line 52 (a subotal or quantity that is no number, a zero
\* quantity, a missing subotal), record k has every enriched field but
\* list_unit_price overwritten.  A failure on a missing key earlier in the
\* iteration leaves record k with only the fields assigned before that line.
C10_PriceFailureLeavesAllButPrice ==
    /\ ReturnsTheSameObjects
    /\ FailedInLoop => OthersAsLeft
    /\ (FailedInLoop /\ failed_line = 52) => AllButPriceOverwritten
    /\ (FailedInLoop /\ failed_line = 47) =>
           /\ ~Has(items[idx], "usage_unit")
           /\ {"title", "billing_start", "billing_end", "billing_account_id",
               "billing_account_name", "description"} \subseteq DOMAIN items[idx]
    /\ (FailedInLoop /\ failed_line = 44) =>
           /\ ~Has(items[idx], "usage_unit")
           /\ {"title", "billing_start", "billing_end", "billing_account_id",
               "billing_account_name"} \subseteq DOMAIN items[idx]
           /\ Has(Orig[idx], "description") =>
                  items[idx]["description"] = Orig[idx]["description"]

C10_Witness ==
    /\ FailedInLoop /\ failed_line = 52 /\ exc = "ZeroDivisionError"
    /\ Len(Orig) = 3 /\ idx = 2
    /\ Has(items[1], "list_unit_price")
    /\ Has(items[2], "usage_unit") /\ ~Has(items[2], "list_unit_price")
    /\ items[2]["quantity"] = <<"0">>
    /\ items[3] = Orig[3]

====
